---- MODULE Spec2Model ----
(***************************************************************************)
(* The rules engine of a 4-player, 2-team trick-taking card game           *)
(* (GameEngine) and the heuristic player (GameAI) that picks cards for an  *)
(* automated seat, together with the driver that calls them.               *)
(***************************************************************************)
EXTENDS Integers, Sequences, FiniteSets, TLC

(***************************************************************************)
(* Bounds of the exploration.                                              *)
(***************************************************************************)
\* number of different outcomes of the constructor's shuffle that are explored
NumShuffles == 2
\* a successful play chosen freely (a clicked card) is explored only while
\* fewer than this many cards have been played; later plays are the ones the
\* automated player picks
MaxClickedPlays == 1
\* a successful trump choice is explored only while at most this many cards
\* have been played
MaxTrumpDelay == 0

\* the heuristic player is also examined on its own, on every hand of at most
\* this many cards and every trick in progress of at most this many cards
MaxHandLen == 2
MaxTrickLen == 2

(***************************************************************************)
(* Types: Suit, Rank, Card, Player, Trick.                                 *)
(***************************************************************************)
suits == <<"hearts", "diamonds", "clubs", "spades">>
ranks == <<"2", "3", "4", "5", "6", "7", "8", "9", "10", "J", "Q", "K", "A">>

Suit == {suits[i] : i \in 1..Len(suits)}
Rank == {ranks[i] : i \in 1..Len(ranks)}
Card == [suit : Suit, rank : Rank]

\* the value a null reference has where the source types a field `Suit | null`
Null == "null"


NumPlayers == 4
\* number of rounds of the deal, and the size of a complete trick
DealRounds == 13
TrickSize == 4
\* a team wins the game with this many tricks
TricksToWin == 7

getCardValue(card) ==
    CASE card.rank = "2" -> 2  [] card.rank = "3" -> 3  [] card.rank = "4" -> 4
      [] card.rank = "5" -> 5  [] card.rank = "6" -> 6  [] card.rank = "7" -> 7
      [] card.rank = "8" -> 8  [] card.rank = "9" -> 9  [] card.rank = "10" -> 10
      [] card.rank = "J" -> 11 [] card.rank = "Q" -> 12 [] card.rank = "K" -> 13
      [] card.rank = "A" -> 14

(***************************************************************************)
(* Deck construction and shuffle.                                          *)
(***************************************************************************)
\* the nested loops of createDeck: suit-major, ranks ascending
orderedDeck ==
    [k \in 1..(Len(suits) * Len(ranks)) |->
        [suit |-> suits[((k - 1) \div Len(ranks)) + 1],
         rank |-> ranks[((k - 1) % Len(ranks)) + 1]]]

\* Math.floor(Math.random() * (i + 1)): a value in 0..i. The run of draws of
\* one shuffle is fixed by `seed`; the explored shuffles differ in it.
randomDraw(seed, i) == (((i * i + seed) * (i + 7 * seed)) \div (seed + 1)) % (i + 1)

swap(s, a, b) == [s EXCEPT ![a] = s[b], ![b] = s[a]]

RECURSIVE shuffleLoop(_, _, _)
shuffleLoop(shuffled, i, seed) ==
    IF i > 0
    THEN shuffleLoop(swap(shuffled, i + 1, randomDraw(seed, i) + 1), i - 1, seed)
    ELSE shuffled

shuffleDeck(d, seed) == shuffleLoop(d, Len(d) - 1, seed)

createDeck(seed) == shuffleDeck(orderedDeck, seed)

PlayerIds == 0..(NumPlayers - 1)

newPlayers == [id \in PlayerIds |-> [hand |-> <<>>, tricks |-> 0]]

(***************************************************************************)
(* State of one GameEngine and of its driver.                              *)
(***************************************************************************)
VARIABLES
    deck,               \* Card[]
    players,            \* Player[]: hand and tricks of each of the 4 seats
    currentTrick,       \* Trick | null: <<>> is null, <<t>> is the trick t
    trumpSuit,          \* Suit | null
    currentPlayerIndex,
    gameStarted,
    completedTricks     \* history: the tricks that received their 4th play, each
                        \* with the trump suit in force at that play

engineVars == <<deck, players, currentTrick, trumpSuit, currentPlayerIndex, gameStarted>>
vars == <<deck, players, currentTrick, trumpSuit, currentPlayerIndex, gameStarted,
          completedTricks>>

\* the engine object as one value
Engine ==
    [deck |-> deck, players |-> players, currentTrick |-> currentTrick,
     trumpSuit |-> trumpSuit, currentPlayerIndex |-> currentPlayerIndex,
     gameStarted |-> gameStarted]

\* how a call ends: it returns, or it throws one of the engine's errors
Returned(g) == [g |-> g, error |-> "ok"]
Thrown(g, e) == [g |-> g, error |-> e]

\* the messages of the errors the engine throws
AlreadyStarted == "Game has already started"
NotStarted == "Game has not started"
TrumpAlreadySet == "Trump suit has already been set"
OutOfTurn == "Not your turn"
InvalidCardIndex == "Invalid card index"
MustFollowLeadSuit == "Must follow the lead suit"

(***************************************************************************)
(* GameEngine.startGame                                                    *)
(***************************************************************************)
\* mutant: the deal reads the last card of the deck without taking it off
RECURSIVE dealLoopKeepsDeck(_, _)
dealLoopKeepsDeck(g, n) ==
    IF n >= DealRounds * NumPlayers
    THEN g
    ELSE IF Len(g.deck) > 0
         THEN LET card == g.deck[Len(g.deck)]
                  j == n % NumPlayers
              IN  dealLoopKeepsDeck([g EXCEPT !.players[j].hand = Append(@, card)], n + 1)
         ELSE dealLoopKeepsDeck(g, n + 1)

\* mutant: the inner loop of the deal runs over three seats, seat 3 gets no card
RECURSIVE dealLoopThreeSeats(_, _)
dealLoopThreeSeats(g, n) ==
    IF n >= DealRounds * NumPlayers
    THEN g
    ELSE IF Len(g.deck) > 0
         THEN LET card == g.deck[Len(g.deck)]
                  j == n % (NumPlayers - 1)
              IN  dealLoopThreeSeats([g EXCEPT !.deck = SubSeq(@, 1, Len(@) - 1),
                                               !.players[j].hand = Append(@, card)], n + 1)
         ELSE dealLoopThreeSeats(g, n + 1)

\* the two nested loops of the deal, n = 4 * i + j: pop the last card of the
\* deck and, if there was one, push it on the hand of seat j
RECURSIVE dealLoop(_, _)
dealLoop(g, n) ==
    IF n >= DealRounds * NumPlayers
    THEN g
    ELSE IF Len(g.deck) > 0
         THEN LET card == g.deck[Len(g.deck)]
                  j == n % NumPlayers
              IN  dealLoop([g EXCEPT !.deck = SubSeq(@, 1, Len(@) - 1),
                                     !.players[j].hand = Append(@, card)], n + 1)
         ELSE dealLoop(g, n + 1)

\* mutant: startGame without its guard against a started game
startGameUnguarded(g) ==
    Returned([dealLoop(g, 0) EXCEPT !.gameStarted = TRUE])

startGame(g) ==
    IF g.gameStarted
    THEN Thrown(g, AlreadyStarted)
    ELSE Returned([dealLoop(g, 0) EXCEPT !.gameStarted = TRUE])

(***************************************************************************)
(* GameEngine.setTrumpSuit                                                 *)
(***************************************************************************)
\* mutant: setTrumpSuit without the test for a trump suit already set
setTrumpSuitOverwrites(g, suit) ==
    IF ~g.gameStarted
    THEN Thrown(g, NotStarted)
    ELSE Returned([g EXCEPT !.trumpSuit = suit])

\* mutant: setTrumpSuit without the test for a started game
setTrumpSuitAnyTime(g, suit) ==
    IF g.trumpSuit # Null
    THEN Thrown(g, TrumpAlreadySet)
    ELSE Returned([g EXCEPT !.trumpSuit = suit])

setTrumpSuit(g, suit) ==
    IF ~g.gameStarted
    THEN Thrown(g, NotStarted)
    ELSE IF g.trumpSuit # Null
         THEN Thrown(g, TrumpAlreadySet)
         ELSE Returned([g EXCEPT !.trumpSuit = suit])

(***************************************************************************)
(* GameEngine.determineTrickWinner and checkGameEnd                        *)
(***************************************************************************)
\* mutant: the scan compares ranks within the winning card's suit only and
\* never lets a trump card take over
RECURSIVE winnerScanIgnoresTrump(_, _, _, _)
winnerScanIgnoresTrump(cards, trump, i, winningIndex) ==
    IF i >= TrickSize
    THEN winningIndex
    ELSE LET card == cards[i + 1]
             winningCard == cards[winningIndex + 1]
         IN  IF card.suit = winningCard.suit
                /\ getCardValue(card) > getCardValue(winningCard)
             THEN winnerScanIgnoresTrump(cards, trump, i + 1, i)
             ELSE winnerScanIgnoresTrump(cards, trump, i + 1, winningIndex)

\* the loop `for (i = 1; i < 4; i++)`: the index of the winning card
RECURSIVE winnerScan(_, _, _, _)
winnerScan(cards, trump, i, winningIndex) ==
    IF i >= TrickSize
    THEN winningIndex
    ELSE LET card == cards[i + 1]
             winningCard == cards[winningIndex + 1]
         IN  IF card.suit = trump /\ winningCard.suit # trump
             THEN winnerScan(cards, trump, i + 1, i)
             ELSE IF card.suit = winningCard.suit
                     /\ getCardValue(card) > getCardValue(winningCard)
                  THEN winnerScan(cards, trump, i + 1, i)
                  ELSE winnerScan(cards, trump, i + 1, winningIndex)

checkGameEnd(g) ==
    LET team1Tricks == g.players[0].tricks + g.players[2].tricks
        team2Tricks == g.players[1].tricks + g.players[3].tricks
    IN  IF team1Tricks >= TricksToWin
        THEN [g EXCEPT !.gameStarted = FALSE]
        ELSE IF team2Tricks >= TricksToWin
             THEN [g EXCEPT !.gameStarted = FALSE]
             ELSE g

\* mutant: the winner is recorded and leads, but its counter is not incremented
determineTrickWinnerNoCount(g) ==
    LET winningIndex == winnerScan(g.currentTrick[1].cards, g.trumpSuit, 1, 0)
    IN  checkGameEnd([g EXCEPT !.currentTrick[1].winner = winningIndex,
                               !.currentPlayerIndex = winningIndex])

\* called by playCard only, on a trick of 4 cards (its own guard against an
\* incomplete trick never fires)
determineTrickWinner(g) ==
    LET winningIndex == winnerScan(g.currentTrick[1].cards, g.trumpSuit, 1, 0)
    IN  checkGameEnd([g EXCEPT !.currentTrick[1].winner = winningIndex,
                               !.players[winningIndex].tricks = @ + 1,
                               !.currentPlayerIndex = winningIndex])

(***************************************************************************)
(* GameEngine.playCard                                                     *)
(***************************************************************************)
newTrick(card) == <<[cards |-> <<>>, winner |-> -1, leadSuit |-> card.suit, playerIds |-> <<>>]>>

\* hand.some(c => c.suit === suit)
hasSuit(hand, suit) == \E k \in 1..Len(hand) : hand[k].suit = suit

\* mutant: hand.splice(cardIndex + 1, 1), the card after the played one leaves
spliceOffByOne(hand, cardIndex) ==
    IF cardIndex + 2 > Len(hand)
    THEN hand
    ELSE SubSeq(hand, 1, cardIndex + 1) \o SubSeq(hand, cardIndex + 3, Len(hand))

\* mutant: hand.pop(), the last card of the hand leaves
spliceLast(hand, cardIndex) ==
    SubSeq(hand, 1, Len(hand) - 1)

\* hand.splice(cardIndex, 1), cardIndex 0-based
splice(hand, cardIndex) ==
    SubSeq(hand, 1, cardIndex) \o SubSeq(hand, cardIndex + 2, Len(hand))

\* mutant: the turn stays with the seat that played
playTheCardKeepsTurn(g, playerId, cardIndex, card) ==
    LET g1 == [g EXCEPT !.currentTrick[1].cards = Append(@, card),
                        !.currentTrick[1].playerIds = Append(@, playerId),
                        !.players[playerId].hand = splice(@, cardIndex)]
    IN  IF Len(g1.currentTrick[1].cards) = TrickSize
        THEN determineTrickWinner(g1)
        ELSE g1

\* mutant: the played card is pushed on the trick but stays in the hand
playTheCardKeepsCard(g, playerId, cardIndex, card) ==
    LET g1 == [g EXCEPT !.currentTrick[1].cards = Append(@, card),
                        !.currentTrick[1].playerIds = Append(@, playerId)]
    IN  IF Len(g1.currentTrick[1].cards) = TrickSize
        THEN determineTrickWinner(g1)
        ELSE [g1 EXCEPT !.currentPlayerIndex = (g1.currentPlayerIndex + 1) % NumPlayers]

\* the part of playCard after the legality checks
playTheCard(g, playerId, cardIndex, card) ==
    LET g1 == [g EXCEPT !.currentTrick[1].cards = Append(@, card),
                        !.currentTrick[1].playerIds = Append(@, playerId),
                        !.players[playerId].hand = splice(@, cardIndex)]
    IN  IF Len(g1.currentTrick[1].cards) = TrickSize
        THEN determineTrickWinner(g1)
        ELSE [g1 EXCEPT !.currentPlayerIndex = (g1.currentPlayerIndex + 1) % NumPlayers]

\* mutant: a trump card is exempt from the obligation to follow suit
playCardTrumpExempt(g, playerId, cardIndex) ==
    IF ~g.gameStarted
    THEN Thrown(g, NotStarted)
    ELSE IF playerId # g.currentPlayerIndex
    THEN Thrown(g, OutOfTurn)
    ELSE IF cardIndex < 0 \/ cardIndex >= Len(g.players[playerId].hand)
    THEN Thrown(g, InvalidCardIndex)
    ELSE LET hand == g.players[playerId].hand
             card == hand[cardIndex + 1]
         IN  IF g.currentTrick = <<>> \/ Len(g.currentTrick[1].cards) = TrickSize
             THEN Returned(playTheCard([g EXCEPT !.currentTrick = newTrick(card)],
                                       playerId, cardIndex, card))
             ELSE IF hasSuit(hand, g.currentTrick[1].leadSuit)
                     /\ card.suit # g.currentTrick[1].leadSuit
                     /\ card.suit # g.trumpSuit
                  THEN Thrown(g, MustFollowLeadSuit)
                  ELSE Returned(playTheCard(g, playerId, cardIndex, card))

\* mutant: the follow-suit check comes first and applies whenever the trick
\* the engine holds has cards, a complete trick included
playCardChecksBeforeNewTrick(g, playerId, cardIndex) ==
    IF ~g.gameStarted
    THEN Thrown(g, NotStarted)
    ELSE IF playerId # g.currentPlayerIndex
    THEN Thrown(g, OutOfTurn)
    ELSE IF cardIndex < 0 \/ cardIndex >= Len(g.players[playerId].hand)
    THEN Thrown(g, InvalidCardIndex)
    ELSE LET hand == g.players[playerId].hand
             card == hand[cardIndex + 1]
         IN  IF /\ g.currentTrick # <<>>
                /\ Len(g.currentTrick[1].cards) > 0
                /\ hasSuit(hand, g.currentTrick[1].leadSuit)
                /\ card.suit # g.currentTrick[1].leadSuit
             THEN Thrown(g, MustFollowLeadSuit)
             ELSE IF g.currentTrick = <<>> \/ Len(g.currentTrick[1].cards) = TrickSize
                  THEN Returned(playTheCard([g EXCEPT !.currentTrick = newTrick(card)],
                                            playerId, cardIndex, card))
                  ELSE Returned(playTheCard(g, playerId, cardIndex, card))

\* mutant: the card leaves the hand before the follow-suit check
playCardSplicesBeforeCheck(g, playerId, cardIndex) ==
    IF ~g.gameStarted
    THEN Thrown(g, NotStarted)
    ELSE IF playerId # g.currentPlayerIndex
    THEN Thrown(g, OutOfTurn)
    ELSE IF cardIndex < 0 \/ cardIndex >= Len(g.players[playerId].hand)
    THEN Thrown(g, InvalidCardIndex)
    ELSE LET hand == g.players[playerId].hand
             card == hand[cardIndex + 1]
         IN  IF g.currentTrick = <<>> \/ Len(g.currentTrick[1].cards) = TrickSize
             THEN Returned(playTheCard([g EXCEPT !.currentTrick = newTrick(card)],
                                       playerId, cardIndex, card))
             ELSE IF hasSuit(hand, g.currentTrick[1].leadSuit)
                     /\ card.suit # g.currentTrick[1].leadSuit
                  THEN Thrown([g EXCEPT !.players[playerId].hand = splice(@, cardIndex)],
                              MustFollowLeadSuit)
                  ELSE Returned(playTheCard(g, playerId, cardIndex, card))

\* mutant: the card index is validated before the turn
playCardIndexBeforeTurn(g, playerId, cardIndex) ==
    IF ~g.gameStarted
    THEN Thrown(g, NotStarted)
    ELSE IF playerId \in PlayerIds
            /\ (cardIndex < 0 \/ cardIndex >= Len(g.players[playerId].hand))
    THEN Thrown(g, InvalidCardIndex)
    ELSE IF playerId # g.currentPlayerIndex
    THEN Thrown(g, OutOfTurn)
    ELSE LET hand == g.players[playerId].hand
             card == hand[cardIndex + 1]
         IN  IF g.currentTrick = <<>> \/ Len(g.currentTrick[1].cards) = TrickSize
             THEN Returned(playTheCard([g EXCEPT !.currentTrick = newTrick(card)],
                                       playerId, cardIndex, card))
             ELSE IF hasSuit(hand, g.currentTrick[1].leadSuit)
                     /\ card.suit # g.currentTrick[1].leadSuit
                  THEN Thrown(g, MustFollowLeadSuit)
                  ELSE Returned(playTheCard(g, playerId, cardIndex, card))

\* mutant: the upper bound of the index test is `cardIndex > hand.length`, so
\* hand[hand.length] is read: undefined, and reading its suit is a TypeError
playCardIndexOffByOne(g, playerId, cardIndex) ==
    IF ~g.gameStarted
    THEN Thrown(g, NotStarted)
    ELSE IF playerId # g.currentPlayerIndex
    THEN Thrown(g, OutOfTurn)
    ELSE IF cardIndex < 0 \/ cardIndex > Len(g.players[playerId].hand)
    THEN Thrown(g, InvalidCardIndex)
    ELSE IF cardIndex = Len(g.players[playerId].hand)
    THEN Thrown(g, "Cannot read properties of undefined")
    ELSE LET hand == g.players[playerId].hand
             card == hand[cardIndex + 1]
         IN  IF g.currentTrick = <<>> \/ Len(g.currentTrick[1].cards) = TrickSize
             THEN Returned(playTheCard([g EXCEPT !.currentTrick = newTrick(card)],
                                       playerId, cardIndex, card))
             ELSE IF hasSuit(hand, g.currentTrick[1].leadSuit)
                     /\ card.suit # g.currentTrick[1].leadSuit
                  THEN Thrown(g, MustFollowLeadSuit)
                  ELSE Returned(playTheCard(g, playerId, cardIndex, card))

\* mutant: a fresh trick is made only when there is none, so a play after a
\* complete trick is checked against it and appended to it
playCardNeverReplacesTrick(g, playerId, cardIndex) ==
    IF ~g.gameStarted
    THEN Thrown(g, NotStarted)
    ELSE IF playerId # g.currentPlayerIndex
    THEN Thrown(g, OutOfTurn)
    ELSE IF cardIndex < 0 \/ cardIndex >= Len(g.players[playerId].hand)
    THEN Thrown(g, InvalidCardIndex)
    ELSE LET hand == g.players[playerId].hand
             card == hand[cardIndex + 1]
         IN  IF g.currentTrick = <<>>
             THEN Returned(playTheCard([g EXCEPT !.currentTrick = newTrick(card)],
                                       playerId, cardIndex, card))
             ELSE IF hasSuit(hand, g.currentTrick[1].leadSuit)
                     /\ card.suit # g.currentTrick[1].leadSuit
                  THEN Thrown(g, MustFollowLeadSuit)
                  ELSE Returned(playTheCard(g, playerId, cardIndex, card))

\* mutant: the turn is tested before the started flag
playCardTurnBeforeStarted(g, playerId, cardIndex) ==
    IF playerId # g.currentPlayerIndex
    THEN Thrown(g, OutOfTurn)
    ELSE IF ~g.gameStarted
    THEN Thrown(g, NotStarted)
    ELSE IF cardIndex < 0 \/ cardIndex >= Len(g.players[playerId].hand)
    THEN Thrown(g, InvalidCardIndex)
    ELSE LET hand == g.players[playerId].hand
             card == hand[cardIndex + 1]
         IN  IF g.currentTrick = <<>> \/ Len(g.currentTrick[1].cards) = TrickSize
             THEN Returned(playTheCard([g EXCEPT !.currentTrick = newTrick(card)],
                                       playerId, cardIndex, card))
             ELSE IF hasSuit(hand, g.currentTrick[1].leadSuit)
                     /\ card.suit # g.currentTrick[1].leadSuit
                  THEN Thrown(g, MustFollowLeadSuit)
                  ELSE Returned(playTheCard(g, playerId, cardIndex, card))

playCard(g, playerId, cardIndex) ==
    IF ~g.gameStarted
    THEN Thrown(g, NotStarted)
    ELSE IF playerId # g.currentPlayerIndex
    THEN Thrown(g, OutOfTurn)
    ELSE IF cardIndex < 0 \/ cardIndex >= Len(g.players[playerId].hand)
    THEN Thrown(g, InvalidCardIndex)
    ELSE LET hand == g.players[playerId].hand
             card == hand[cardIndex + 1]
         IN  IF g.currentTrick = <<>> \/ Len(g.currentTrick[1].cards) = TrickSize
             THEN Returned(playTheCard([g EXCEPT !.currentTrick = newTrick(card)],
                                       playerId, cardIndex, card))
             ELSE IF hasSuit(hand, g.currentTrick[1].leadSuit)
                     /\ card.suit # g.currentTrick[1].leadSuit
                  THEN Thrown(g, MustFollowLeadSuit)
                  ELSE Returned(playTheCard(g, playerId, cardIndex, card))

(***************************************************************************)
(* GameAI: the card an automated seat plays.                               *)
(***************************************************************************)
\* hand.indexOf(card), 0-based, -1 when absent
indexOf(hand, card) ==
    IF \E k \in 1..Len(hand) : hand[k] = card
    THEN (CHOOSE k \in 1..Len(hand) :
             hand[k] = card /\ \A m \in 1..(k - 1) : hand[m] # card) - 1
    ELSE -1

\* mutant: the opening loop does not skip trump cards
RECURSIVE openingNonTrumpLoopSkipsNothing(_, _, _, _)
openingNonTrumpLoopSkipsNothing(hand, trump, i, best) ==
    IF i >= Len(hand)
    THEN best
    ELSE IF getCardValue(hand[i + 1]) > best.bestValue
         THEN openingNonTrumpLoopSkipsNothing(hand, trump, i + 1,
                  [bestCardIndex |-> i, bestValue |-> getCardValue(hand[i + 1])])
         ELSE openingNonTrumpLoopSkipsNothing(hand, trump, i + 1, best)

\* first loop of chooseOpeningCard: the highest card that is not trump
RECURSIVE openingNonTrumpLoop(_, _, _, _)
openingNonTrumpLoop(hand, trump, i, best) ==
    IF i >= Len(hand)
    THEN best
    ELSE LET card == hand[i + 1]
         IN  IF trump # Null /\ card.suit = trump
             THEN openingNonTrumpLoop(hand, trump, i + 1, best)
             ELSE IF getCardValue(card) > best.bestValue
                  THEN openingNonTrumpLoop(hand, trump, i + 1,
                           [bestCardIndex |-> i, bestValue |-> getCardValue(card)])
                  ELSE openingNonTrumpLoop(hand, trump, i + 1, best)

\* a loop that keeps the highest card of the hand
RECURSIVE highestLoop(_, _, _)
highestLoop(hand, i, best) ==
    IF i >= Len(hand)
    THEN best
    ELSE IF getCardValue(hand[i + 1]) > best.bestValue
         THEN highestLoop(hand, i + 1,
                  [bestCardIndex |-> i, bestValue |-> getCardValue(hand[i + 1])])
         ELSE highestLoop(hand, i + 1, best)

chooseOpeningCard(hand, trump) ==
    LET first == openingNonTrumpLoop(hand, trump, 0, [bestCardIndex |-> 0, bestValue |-> -1])
    IN  IF first.bestValue = -1
        THEN highestLoop(hand, 0, [first EXCEPT !.bestValue = 0]).bestCardIndex
        ELSE first.bestCardIndex

\* mutant: the loop compares ranks within the suit of the highest card only,
\* a trump card does not take over from a card of another suit
RECURSIVE highestInTrickLoopIgnoresTrump(_, _, _, _)
highestInTrickLoopIgnoresTrump(cards, trump, i, highestCard) ==
    IF i >= Len(cards)
    THEN highestCard
    ELSE IF cards[i + 1].suit = highestCard.suit
            /\ getCardValue(cards[i + 1]) > getCardValue(highestCard)
         THEN highestInTrickLoopIgnoresTrump(cards, trump, i + 1, cards[i + 1])
         ELSE highestInTrickLoopIgnoresTrump(cards, trump, i + 1, highestCard)

\* the loop of getHighestCardInTrick over cards[1..]
RECURSIVE highestInTrickLoop(_, _, _, _)
highestInTrickLoop(cards, trump, i, highestCard) ==
    IF i >= Len(cards)
    THEN highestCard
    ELSE LET card == cards[i + 1]
             value == getCardValue(card)
             highestValue == getCardValue(highestCard)
         IN  IF trump # Null
             THEN IF card.suit = trump /\ highestCard.suit # trump
                  THEN highestInTrickLoop(cards, trump, i + 1, card)
                  ELSE IF card.suit = highestCard.suit /\ value > highestValue
                       THEN highestInTrickLoop(cards, trump, i + 1, card)
                       ELSE highestInTrickLoop(cards, trump, i + 1, highestCard)
             ELSE IF card.suit = highestCard.suit /\ value > highestValue
                  THEN highestInTrickLoop(cards, trump, i + 1, card)
                  ELSE highestInTrickLoop(cards, trump, i + 1, highestCard)

\* Card | null: <<>> is null, <<c>> is the card c
getHighestCardInTrick(trick, trump) ==
    IF Len(trick.cards) = 0
    THEN <<>>
    ELSE <<highestInTrickLoop(trick.cards, trump, 1, trick.cards[1])>>

\* mutant: among the cards that are higher than the highest card of the
\* trick, the loop keeps the one of least value
RECURSIVE beatLoopKeepsLowest(_, _, _, _, _)
beatLoopKeepsLowest(hand, cardsInSuit, highest, i, best) ==
    IF i >= Len(cardsInSuit)
    THEN best
    ELSE LET value == getCardValue(cardsInSuit[i + 1])
         IN  IF value > getCardValue(highest)
                /\ (best.bestCardIndex = -1 \/ value < best.bestValue)
             THEN beatLoopKeepsLowest(hand, cardsInSuit, highest, i + 1,
                      [bestCardIndex |-> indexOf(hand, cardsInSuit[i + 1]), bestValue |-> value])
             ELSE beatLoopKeepsLowest(hand, cardsInSuit, highest, i + 1, best)

\* first loop of chooseCardInSuit: among the cards of the suit that are higher
\* than the highest card of the trick, keep the one of greatest value
RECURSIVE beatLoop(_, _, _, _, _)
beatLoop(hand, cardsInSuit, highest, i, best) ==
    IF i >= Len(cardsInSuit)
    THEN best
    ELSE LET value == getCardValue(cardsInSuit[i + 1])
         IN  IF value > getCardValue(highest) /\ value > best.bestValue
             THEN beatLoop(hand, cardsInSuit, highest, i + 1,
                      [bestCardIndex |-> indexOf(hand, cardsInSuit[i + 1]), bestValue |-> value])
             ELSE beatLoop(hand, cardsInSuit, highest, i + 1, best)

\* second loop of chooseCardInSuit: the lowest card of the suit
RECURSIVE lowestInSuitLoop(_, _, _, _)
lowestInSuitLoop(hand, cardsInSuit, i, best) ==
    IF i >= Len(cardsInSuit)
    THEN best
    ELSE LET value == getCardValue(cardsInSuit[i + 1])
         IN  IF value < best.lowestValue
             THEN lowestInSuitLoop(hand, cardsInSuit, i + 1,
                      [bestCardIndex |-> indexOf(hand, cardsInSuit[i + 1]), lowestValue |-> value])
             ELSE lowestInSuitLoop(hand, cardsInSuit, i + 1, best)

chooseCardInSuit(hand, suit, highestInTrick, trump) ==
    LET cardsInSuit == SelectSeq(hand, LAMBDA c : c.suit = suit)
        start == [bestCardIndex |-> -1, bestValue |-> -1]
        beat == IF highestInTrick # <<>>
                THEN beatLoop(hand, cardsInSuit, highestInTrick[1], 0, start)
                ELSE start
    IN  IF beat.bestCardIndex = -1
        THEN lowestInSuitLoop(hand, cardsInSuit, 0,
                 [bestCardIndex |-> -1, lowestValue |-> 15]).bestCardIndex
        ELSE beat.bestCardIndex

\* mutant: the discard loop does not skip trump cards
RECURSIVE discardNonTrumpLoopSkipsNothing(_, _, _, _)
discardNonTrumpLoopSkipsNothing(hand, trump, i, best) ==
    IF i >= Len(hand)
    THEN best
    ELSE IF getCardValue(hand[i + 1]) < best.bestValue
         THEN discardNonTrumpLoopSkipsNothing(hand, trump, i + 1,
                  [bestCardIndex |-> i, bestValue |-> getCardValue(hand[i + 1])])
         ELSE discardNonTrumpLoopSkipsNothing(hand, trump, i + 1, best)

\* mutant: the discard loop replaces its card by a later card of equal value
RECURSIVE discardNonTrumpLoopKeepsLast(_, _, _, _)
discardNonTrumpLoopKeepsLast(hand, trump, i, best) ==
    IF i >= Len(hand)
    THEN best
    ELSE LET card == hand[i + 1]
         IN  IF trump # Null /\ card.suit = trump
             THEN discardNonTrumpLoopKeepsLast(hand, trump, i + 1, best)
             ELSE IF getCardValue(card) <= best.bestValue
                  THEN discardNonTrumpLoopKeepsLast(hand, trump, i + 1,
                           [bestCardIndex |-> i, bestValue |-> getCardValue(card)])
                  ELSE discardNonTrumpLoopKeepsLast(hand, trump, i + 1, best)

\* first loop of chooseDiscardCard: the lowest card that is not trump
RECURSIVE discardNonTrumpLoop(_, _, _, _)
discardNonTrumpLoop(hand, trump, i, best) ==
    IF i >= Len(hand)
    THEN best
    ELSE LET card == hand[i + 1]
         IN  IF trump # Null /\ card.suit = trump
             THEN discardNonTrumpLoop(hand, trump, i + 1, best)
             ELSE IF getCardValue(card) < best.bestValue
                  THEN discardNonTrumpLoop(hand, trump, i + 1,
                           [bestCardIndex |-> i, bestValue |-> getCardValue(card)])
                  ELSE discardNonTrumpLoop(hand, trump, i + 1, best)

\* a loop that keeps the lowest card of the hand
RECURSIVE lowestLoop(_, _, _)
lowestLoop(hand, i, best) ==
    IF i >= Len(hand)
    THEN best
    ELSE IF getCardValue(hand[i + 1]) < best.bestValue
         THEN lowestLoop(hand, i + 1,
                  [bestCardIndex |-> i, bestValue |-> getCardValue(hand[i + 1])])
         ELSE lowestLoop(hand, i + 1, best)

chooseDiscardCard(hand, trump) ==
    LET first == discardNonTrumpLoop(hand, trump, 0, [bestCardIndex |-> 0, bestValue |-> 15])
    IN  IF first.bestValue = 15
        THEN lowestLoop(hand, 0, first).bestCardIndex
        ELSE first.bestCardIndex

\* mutant: the hand is not searched for the lead suit, the card is always a
\* discard
chooseFollowingCardAlwaysDiscards(hand, trick, trump) ==
    chooseDiscardCard(hand, trump)

chooseFollowingCard(hand, trick, trump) ==
    LET leadSuit == trick.leadSuit
        highestInTrick == getHighestCardInTrick(trick, trump)
    IN  IF hasSuit(hand, leadSuit)
        THEN chooseCardInSuit(hand, leadSuit, highestInTrick, trump)
        ELSE chooseDiscardCard(hand, trump)

\* GameAI.makeMove of the instance made for seat playerId on engine g
makeMove(g, playerId) ==
    LET hand == g.players[playerId].hand
    IN  IF g.currentTrick = <<>> \/ Len(g.currentTrick[1].cards) = 0
        THEN chooseOpeningCard(hand, g.trumpSuit)
        ELSE chooseFollowingCard(hand, g.currentTrick[1], g.trumpSuit)

(***************************************************************************)
(* The older GameEngine of the source: its trick has no playerIds, and its *)
(* playCard tests the lead suit before it makes a new trick and always     *)
(* moves the turn on.  Its startGame, setTrumpSuit, scan and checkGameEnd  *)
(* are the same code as the newer ones.                                    *)
(***************************************************************************)
newTrickOlder(card) == <<[cards |-> <<>>, winner |-> -1, leadSuit |-> card.suit]>>

determineTrickWinnerOlder(g) ==
    LET winningIndex == winnerScan(g.currentTrick[1].cards, g.trumpSuit, 1, 0)
    IN  checkGameEnd([g EXCEPT !.currentTrick[1].winner = winningIndex,
                               !.players[winningIndex].tricks = @ + 1,
                               !.currentPlayerIndex = winningIndex])

\* mutant: the turn is not moved on after the play that completes a trick
playCardOlderWinnerLeads(g, playerId, cardIndex) ==
    IF ~g.gameStarted
    THEN Thrown(g, NotStarted)
    ELSE IF playerId # g.currentPlayerIndex
    THEN Thrown(g, OutOfTurn)
    ELSE IF cardIndex < 0 \/ cardIndex >= Len(g.players[playerId].hand)
    THEN Thrown(g, InvalidCardIndex)
    ELSE LET hand == g.players[playerId].hand
             card == hand[cardIndex + 1]
         IN  IF /\ g.currentTrick # <<>>
                /\ Len(g.currentTrick[1].cards) > 0
                /\ hasSuit(hand, g.currentTrick[1].leadSuit)
                /\ card.suit # g.currentTrick[1].leadSuit
             THEN Thrown(g, MustFollowLeadSuit)
             ELSE LET g0 == IF g.currentTrick = <<>>
                               \/ Len(g.currentTrick[1].cards) = TrickSize
                            THEN [g EXCEPT !.currentTrick = newTrickOlder(card)]
                            ELSE g
                      g1 == [g0 EXCEPT !.currentTrick[1].cards = Append(@, card),
                                       !.players[playerId].hand = splice(@, cardIndex)]
                  IN  IF Len(g1.currentTrick[1].cards) = TrickSize
                      THEN Returned(determineTrickWinnerOlder(g1))
                      ELSE Returned([g1 EXCEPT !.currentPlayerIndex =
                                        (g1.currentPlayerIndex + 1) % NumPlayers])

playCardOlder(g, playerId, cardIndex) ==
    IF ~g.gameStarted
    THEN Thrown(g, NotStarted)
    ELSE IF playerId # g.currentPlayerIndex
    THEN Thrown(g, OutOfTurn)
    ELSE IF cardIndex < 0 \/ cardIndex >= Len(g.players[playerId].hand)
    THEN Thrown(g, InvalidCardIndex)
    ELSE LET hand == g.players[playerId].hand
             card == hand[cardIndex + 1]
         IN  IF /\ g.currentTrick # <<>>
                /\ Len(g.currentTrick[1].cards) > 0
                /\ hasSuit(hand, g.currentTrick[1].leadSuit)
                /\ card.suit # g.currentTrick[1].leadSuit
             THEN Thrown(g, MustFollowLeadSuit)
             ELSE LET g0 == IF g.currentTrick = <<>>
                               \/ Len(g.currentTrick[1].cards) = TrickSize
                            THEN [g EXCEPT !.currentTrick = newTrickOlder(card)]
                            ELSE g
                      g1 == [g0 EXCEPT !.currentTrick[1].cards = Append(@, card),
                                       !.players[playerId].hand = splice(@, cardIndex)]
                      g2 == IF Len(g1.currentTrick[1].cards) = TrickSize
                            THEN determineTrickWinnerOlder(g1)
                            ELSE g1
                  IN  Returned([g2 EXCEPT !.currentPlayerIndex =
                                   (g2.currentPlayerIndex + 1) % NumPlayers])

(***************************************************************************)
(* The driver: construction, and the calls it makes on the engine.         *)
(***************************************************************************)
\* mutant: the constructor leaves the game marked as started
InitAlreadyStarted ==
    /\ \E seed \in 1..NumShuffles : deck = createDeck(seed)
    /\ players = newPlayers
    /\ currentTrick = <<>>
    /\ trumpSuit = Null
    /\ currentPlayerIndex = 0
    /\ gameStarted = TRUE
    /\ completedTricks = <<>>

Init ==
    /\ \E seed \in 1..NumShuffles : deck = createDeck(seed)
    /\ players = newPlayers
    /\ currentTrick = <<>>
    /\ trumpSuit = Null
    /\ currentPlayerIndex = 0
    /\ gameStarted = FALSE
    /\ completedTricks = <<>>

\* number of cards played so far
CardsPlayed ==
    TrickSize * Len(completedTricks)
    + (IF currentTrick # <<>> /\ Len(currentTrick[1].cards) < TrickSize
       THEN Len(currentTrick[1].cards) ELSE 0)

\* the engine is left in the state the call made, whether it returned or threw
\* (the driver catches what it threw)
Apply(r, op) ==
    /\ deck' = r.g.deck
    /\ players' = r.g.players
    /\ currentTrick' = r.g.currentTrick
    /\ trumpSuit' = r.g.trumpSuit
    /\ currentPlayerIndex' = r.g.currentPlayerIndex
    /\ gameStarted' = r.g.gameStarted
    /\ completedTricks' =
          IF op = "playCard" /\ r.error = "ok"
             /\ Len(r.g.currentTrick[1].cards) = TrickSize
          THEN Append(completedTricks,
                      [trick |-> r.g.currentTrick[1], trumpSuit |-> r.g.trumpSuit])
          ELSE completedTricks

\* (a result is bound with \E over a one-element set so that the call is
\* evaluated once)
StartGame ==
    \E r \in {startGame(Engine)} :
        /\ Apply(r, "startGame")

SetTrumpSuit(suit) ==
    \E r \in {setTrumpSuit(Engine, suit)} :
        /\ r.error # "ok" \/ CardsPlayed <= MaxTrumpDelay
        /\ Apply(r, "setTrumpSuit")

\* handlePlayCard for a clicked card (or any caller's choice of seat and index)
PlayCard(playerId, cardIndex) ==
    \E r \in {playCard(Engine, playerId, cardIndex)} :
        /\ r.error # "ok" \/ CardsPlayed < MaxClickedPlays
        /\ Apply(r, "playCard")

\* mutant: the automated player takes the chosen card out of the hand itself
\* before the card at that index is played
AIMoveTakesCardItself ==
    \E cardIndex \in {makeMove(Engine, currentPlayerIndex)} :
        \E r \in {playCard([Engine EXCEPT !.players[currentPlayerIndex].hand =
                                IF cardIndex < Len(@) THEN splice(@, cardIndex) ELSE @],
                           currentPlayerIndex, cardIndex)} :
            /\ Apply(r, "playCard")

\* the effect of GameTable for an automated current player
AIMove ==
    \E cardIndex \in {makeMove(Engine, currentPlayerIndex)} :
        \E r \in {playCard(Engine, currentPlayerIndex, cardIndex)} :
            /\ Apply(r, "playCard")

\* the seats and card indexes a caller may pass: every seat and one value on
\* each side of the seats, every index of a hand and one value on each side
SeatArgs == -1..NumPlayers
LongestHand ==
    CHOOSE n \in 0..(DealRounds * NumPlayers) :
        /\ \E p \in PlayerIds : Len(players[p].hand) = n
        /\ \A p \in PlayerIds : Len(players[p].hand) <= n
IndexArgs == -1..LongestHand

Next ==
    \/ StartGame
    \/ \E suit \in Suit : SetTrumpSuit(suit)
    \/ \E playerId \in SeatArgs, cardIndex \in IndexArgs :
          PlayCard(playerId, cardIndex)
    \/ AIMove

Spec == Init /\ [][Next]_vars

(***************************************************************************)
(* Vocabulary of the properties.                                           *)
(***************************************************************************)
HasTrick == currentTrick # <<>>
TrickCards == IF HasTrick THEN currentTrick[1].cards ELSE <<>>
TrickInProgress == HasTrick /\ Len(TrickCards) \in 1..(TrickSize - 1)
TrickComplete == HasTrick /\ Len(TrickCards) = TrickSize
AllHands == players[0].hand \o players[1].hand \o players[2].hand \o players[3].hand
Occurrences(seq, c) == Cardinality({k \in 1..Len(seq) : seq[k] = c})

\* the cards of the first n completed tricks, in play order
RECURSIVE CompletedCards(_)
CompletedCards(n) ==
    IF n = 0 THEN <<>> ELSE CompletedCards(n - 1) \o completedTricks[n].trick.cards

\* the completed tricks the engine no longer holds
ReplacedTricks ==
    IF TrickComplete THEN Len(completedTricks) - 1 ELSE Len(completedTricks)

Team1Tricks == players[0].tricks + players[2].tricks
Team2Tricks == players[1].tricks + players[3].tricks
TargetReached == Team1Tricks >= TricksToWin \/ Team2Tricks >= TricksToWin

\* the play that wins a complete trick by the rules of the game: the highest
\* trump card if a trump card was played, else the highest card of the suit led
RuleWinner(cards, trump) ==
    LET trumps == {k \in 1..Len(cards) : cards[k].suit = trump}
        leads == {k \in 1..Len(cards) : cards[k].suit = cards[1].suit}
        pool == IF trumps # {} THEN trumps ELSE leads
    IN  (CHOOSE k \in pool :
            \A m \in pool : getCardValue(cards[m]) <= getCardValue(cards[k])) - 1

\* a trick is completed by this step
CompletesTrick == Len(completedTricks') = Len(completedTricks) + 1
\* startGame returns in this step
StartSucceeds == ~gameStarted /\ gameStarted'

(***************************************************************************)
(* C1: in every reachable state the deck, the four hands and all trick     *)
(* plays (the current trick and every earlier completed trick) together    *)
(* hold each of the 52 cards exactly once.                                 *)
(***************************************************************************)
C1_EveryCardExactlyOnce ==
    \A everywhere \in {deck \o AllHands \o CompletedCards(ReplacedTricks) \o TrickCards} :
        \A c \in Card : Occurrences(everywhere, c) = 1

C1_Witness ==
    /\ Len(completedTricks) >= 2
    /\ TrickInProgress
    /\ deck = <<>>

(***************************************************************************)
(* C2 as stated: every card is at all times in exactly one of the deck, a  *)
(* hand, or the plays of the one trick the engine holds.                   *)
(***************************************************************************)
C2_Original_CardInDeckHandOrCurrentTrick ==
    \A c \in Card : Occurrences(deck \o AllHands \o TrickCards, c) = 1

(***************************************************************************)
(* C2 amended: every card is in at most one of the deck, a hand, or the    *)
(* plays of the trick the engine holds, and the cards that are in none of  *)
(* them are exactly the cards of the completed tricks that a fresh trick   *)
(* has replaced.                                                           *)
(***************************************************************************)
C2_CardLiveOnceOrInReplacedTrick ==
    \A held \in {deck \o AllHands \o TrickCards},
       replaced \in {CompletedCards(ReplacedTricks)} :
        \A c \in Card :
            \A live \in {Occurrences(held, c)}, gone \in {Occurrences(replaced, c)} :
                live + gone = 1 /\ live \in {0, 1}

C2_Witness ==
    /\ ReplacedTricks >= 1
    /\ TrickInProgress
    /\ \E c \in Card : Occurrences(deck \o AllHands \o TrickCards, c) = 0

(***************************************************************************)
(* C3 as stated: after the play that completes a trick the turn pointer is *)
(* the seat of the player who played the winning card, whichever seat led  *)
(* the trick.                                                              *)
(***************************************************************************)
C3_Original_WinnerSeatLeadsNext ==
    TrickComplete =>
        currentPlayerIndex =
            currentTrick[1].playerIds[
                RuleWinner(TrickCards, completedTricks[Len(completedTricks)].trumpSuit) + 1]

(***************************************************************************)
(* C4 as stated: when a trick completes, the tricks-won counter of the     *)
(* seat that played the winning card grows by exactly 1 and the counters   *)
(* of the other three seats are unchanged.                                 *)
(***************************************************************************)
C4_Original_WinnerSeatCounterGrows ==
    [][CompletesTrick =>
          LET t == currentTrick'[1]
              seat == t.playerIds[RuleWinner(t.cards, trumpSuit') + 1]
          IN  \A p \in PlayerIds :
                  players'[p].tricks = players[p].tricks + (IF p = seat THEN 1 ELSE 0)]_vars

(***************************************************************************)
(* C5: the winning play recorded for a complete trick is the highest       *)
(* trump card if at least one trump card was played, and otherwise (no     *)
(* trump played, or trump unset) the highest card of the lead suit.        *)
(***************************************************************************)
C5_WinnerIsHighestTrumpElseHighestLead ==
    \A n \in 1..Len(completedTricks) :
        LET t == completedTricks[n]
        IN  t.trick.winner = RuleWinner(t.trick.cards, t.trumpSuit)

\* a trick led in a plain suit that a trump card wins although a card of
\* higher rank is in it, and a trick without trump won by a later play
C5_Witness ==
    /\ \E n \in 1..Len(completedTricks) :
          LET t == completedTricks[n]
              w == t.trick.cards[t.trick.winner + 1]
          IN  /\ w.suit = t.trumpSuit
              /\ t.trick.leadSuit # t.trumpSuit
              /\ \E k \in 1..TrickSize : getCardValue(t.trick.cards[k]) > getCardValue(w)
    /\ \E n \in 1..Len(completedTricks) :
          LET t == completedTricks[n]
          IN  /\ \A k \in 1..TrickSize : t.trick.cards[k].suit # t.trumpSuit
              /\ t.trick.winner > 0

(***************************************************************************)
(* C6: while the trick holds 1 to 3 plays, a player who holds a card of    *)
(* the lead suit is refused any card of another suit (a trump card too)    *)
(* with MustFollowLeadSuit and is allowed any card of the lead suit; a     *)
(* player who holds no card of the lead suit is allowed any card.          *)
(***************************************************************************)
C6_FollowSuitRule ==
    (gameStarted /\ TrickInProgress) =>
        LET hand == players[currentPlayerIndex].hand
            leadSuit == currentTrick[1].leadSuit
        IN  \A cardIndex \in 0..(Len(hand) - 1) :
                \A r \in {playCard(Engine, currentPlayerIndex, cardIndex)} :
                    IF hasSuit(hand, leadSuit) /\ hand[cardIndex + 1].suit # leadSuit
                    THEN r.error = MustFollowLeadSuit
                    ELSE /\ r.error = "ok"
                         /\ Len(r.g.players[currentPlayerIndex].hand) = Len(hand) - 1

\* the player to act holds the lead suit and also a trump card of another suit
C6_Witness ==
    /\ gameStarted /\ TrickInProgress
    /\ trumpSuit # Null
    /\ trumpSuit # currentTrick[1].leadSuit
    /\ hasSuit(players[currentPlayerIndex].hand, currentTrick[1].leadSuit)
    /\ hasSuit(players[currentPlayerIndex].hand, trumpSuit)
    /\ \E cardIndex \in 0..(Len(players[currentPlayerIndex].hand) - 1) :
          /\ players[currentPlayerIndex].hand[cardIndex + 1].suit = trumpSuit
          /\ playCard(Engine, currentPlayerIndex, cardIndex).error = MustFollowLeadSuit

(***************************************************************************)
(* C7: the card that leads a fresh trick is always legal: in a started     *)
(* match, for the seat at the turn pointer and an index within its hand,   *)
(* when there is no trick or the trick holds 4 plays, playCard succeeds    *)
(* for every card and starts a trick whose lead suit is the suit of that   *)
(* card and whose plays are exactly that one play.                         *)
(***************************************************************************)
C7_LeadingCardAlwaysLegal ==
    (gameStarted /\ (~HasTrick \/ TrickComplete)) =>
        LET hand == players[currentPlayerIndex].hand
        IN  \A cardIndex \in 0..(Len(hand) - 1) :
                \A r \in {playCard(Engine, currentPlayerIndex, cardIndex)} :
                    /\ r.error = "ok"
                    /\ r.g.currentTrick # <<>>
                    /\ r.g.currentTrick[1].leadSuit = hand[cardIndex + 1].suit
                    /\ r.g.currentTrick[1].cards = <<hand[cardIndex + 1]>>
                    /\ r.g.currentTrick[1].playerIds = <<currentPlayerIndex>>

\* the leader of the next trick holds the suit the last trick was led in and
\* another suit
C7_Witness ==
    /\ gameStarted /\ TrickComplete
    /\ hasSuit(players[currentPlayerIndex].hand, currentTrick[1].leadSuit)
    /\ \E k \in 1..Len(players[currentPlayerIndex].hand) :
          players[currentPlayerIndex].hand[k].suit # currentTrick[1].leadSuit

(***************************************************************************)
(* C8 as stated: once the summed tricks-won of team {0,2} or of team {1,3} *)
(* has reached 7, every later playCard and setTrump call fails with        *)
(* NotStarted, after any further sequence of operations.                   *)
(***************************************************************************)
C8_Original_EndedMatchRefusesCalls ==
    TargetReached =>
        /\ \A playerId \in SeatArgs, cardIndex \in IndexArgs :
              playCard(Engine, playerId, cardIndex).error = NotStarted
        /\ \A suit \in Suit : setTrumpSuit(Engine, suit).error = NotStarted

(***************************************************************************)
(* C9: a call of start, setTrump or playCard that fails, whatever the      *)
(* error, leaves the whole engine state as it was: deck, hands, current    *)
(* trick, trump, turn pointer, tricks-won counters and the started flag.   *)
(***************************************************************************)
C9_FailedCallChangesNothing ==
    /\ \A r \in {startGame(Engine)} : r.error # "ok" => r.g = Engine
    /\ \A suit \in Suit :
          \A r \in {setTrumpSuit(Engine, suit)} : r.error # "ok" => r.g = Engine
    /\ \A playerId \in SeatArgs, cardIndex \in IndexArgs :
          \A r \in {playCard(Engine, playerId, cardIndex)} : r.error # "ok" => r.g = Engine

\* a state in which calls fail with each of the errors
C9_Witness ==
    /\ startGame(Engine).error = AlreadyStarted
    /\ \E suit \in Suit : setTrumpSuit(Engine, suit).error = TrumpAlreadySet
    /\ \E playerId \in SeatArgs, cardIndex \in IndexArgs :
          playCard(Engine, playerId, cardIndex).error = OutOfTurn
    /\ \E cardIndex \in IndexArgs :
          playCard(Engine, currentPlayerIndex, cardIndex).error = InvalidCardIndex
    /\ \E cardIndex \in IndexArgs :
          playCard(Engine, currentPlayerIndex, cardIndex).error = MustFollowLeadSuit

(***************************************************************************)
(* C10 as stated: at every point before start all four hands have length   *)
(* 0, and immediately after any successful start all four hands have       *)
(* length 13 and the deck is empty.                                        *)
(***************************************************************************)
AllHandsEmpty == \A p \in PlayerIds : Len(players[p].hand) = 0

C10_Original_StartDealsThirteenEach ==
    [][/\ (AllHandsEmpty /\ ~StartSucceeds) => AllHandsEmpty'
       /\ StartSucceeds =>
             /\ \A p \in PlayerIds : Len(players'[p].hand) = DealRounds
             /\ deck' = <<>>]_vars

\* startGame has returned at least once: the deal has emptied the deck
EverStarted == deck = <<>>

(***************************************************************************)
(* C11: start on an engine that is already started fails with              *)
(* AlreadyStarted and changes nothing (hands, deck, trick, trump, turn     *)
(* pointer and counters are as before the call).                           *)
(***************************************************************************)
C11_SecondStartFailsAndChangesNothing ==
    gameStarted =>
        /\ startGame(Engine).error = AlreadyStarted
        /\ startGame(Engine).g = Engine

\* a started match in the middle of a trick, with trump chosen
C11_Witness ==
    /\ gameStarted
    /\ TrickInProgress
    /\ trumpSuit # Null
    /\ startGame(Engine).error = AlreadyStarted

(***************************************************************************)
(* C12: trump, once set by a successful setTrump, never changes: every     *)
(* later setTrump in a started match fails with TrumpAlreadySet and keeps  *)
(* the value of the first call, and no other operation (playCard, trick    *)
(* resolution, match end, start) alters it.                                *)
(***************************************************************************)
C12_TrumpOnceSetNeverChanges ==
    /\ [](trumpSuit # Null =>
            /\ \A suit \in Suit :
                  /\ gameStarted => setTrumpSuit(Engine, suit).error = TrumpAlreadySet
                  /\ setTrumpSuit(Engine, suit).g.trumpSuit = trumpSuit
            /\ startGame(Engine).g.trumpSuit = trumpSuit
            /\ \A playerId \in SeatArgs, cardIndex \in IndexArgs :
                  playCard(Engine, playerId, cardIndex).g.trumpSuit = trumpSuit)
    /\ [][trumpSuit # Null => trumpSuit' = trumpSuit]_vars

\* trump was chosen, a match was played to its end and started again
C12_Witness ==
    /\ trumpSuit # Null
    /\ TargetReached
    /\ gameStarted
    /\ \E suit \in Suit :
          suit # trumpSuit /\ setTrumpSuit(Engine, suit).error = TrumpAlreadySet

(***************************************************************************)
(* C13: setTrump called before start fails with NotStarted and trump       *)
(* remains unset.                                                          *)
(***************************************************************************)
C13_SetTrumpBeforeStartFails ==
    ~EverStarted =>
        /\ trumpSuit = Null
        /\ \A suit \in Suit :
              /\ setTrumpSuit(Engine, suit).error = NotStarted
              /\ setTrumpSuit(Engine, suit).g.trumpSuit = Null

C13_Witness ==
    /\ ~EverStarted
    /\ ~gameStarted
    /\ \E suit \in Suit : setTrumpSuit(Engine, suit).error = NotStarted

(***************************************************************************)
(* C14: in a started match, playCard by any seat other than the turn       *)
(* pointer (a seat value outside 0..3 included) fails with OutOfTurn, and  *)
(* all hand sizes and the turn pointer are unchanged.                      *)
(***************************************************************************)
C14_WrongSeatIsOutOfTurn ==
    gameStarted =>
        \A playerId \in SeatArgs \ {currentPlayerIndex}, cardIndex \in IndexArgs :
            \A r \in {playCard(Engine, playerId, cardIndex)} :
                /\ r.error = OutOfTurn
                /\ \A p \in PlayerIds :
                      Len(r.g.players[p].hand) = Len(players[p].hand)
                /\ r.g.currentPlayerIndex = currentPlayerIndex

\* a trick in progress whose turn is not at seat 0, and a seat outside 0..3
C14_Witness ==
    /\ gameStarted
    /\ TrickInProgress
    /\ currentPlayerIndex # 0
    /\ playCard(Engine, 0, 0).error = OutOfTurn
    /\ playCard(Engine, NumPlayers, 0).error = OutOfTurn

(***************************************************************************)
(* C15: in a started match, playCard by the seat at the turn pointer with  *)
(* an index < 0 or >= the length of that seat's hand fails with            *)
(* InvalidCardIndex; in particular every index fails when the hand is      *)
(* empty.                                                                  *)
(***************************************************************************)
C15_IndexOutsideHandIsInvalid ==
    gameStarted =>
        \A cardIndex \in -1..(DealRounds + 1) :
            (cardIndex < 0 \/ cardIndex >= Len(players[currentPlayerIndex].hand))
                => playCard(Engine, currentPlayerIndex, cardIndex).error = InvalidCardIndex

\* a started engine whose seat to act has no card left
C15_Witness ==
    /\ gameStarted
    /\ Len(players[currentPlayerIndex].hand) = 0
    /\ playCard(Engine, currentPlayerIndex, 0).error = InvalidCardIndex

(***************************************************************************)
(* C16: in every reachable state the sum of the four players' tricks-won   *)
(* counters equals the number of tricks completed so far (the tricks that  *)
(* received their 4th play).                                               *)
(***************************************************************************)
C16_CountersSumToCompletedTricks ==
    players[0].tricks + players[1].tricks + players[2].tricks + players[3].tricks
        = Len(completedTricks)

\* several tricks completed, won by seats of both teams
C16_Witness ==
    /\ Len(completedTricks) >= 3
    /\ Team1Tricks >= 1
    /\ Team2Tricks >= 1

\* the number of cards seat p has played, from the history of the tricks
PlaysBy(p) ==
    Cardinality({nk \in (1..Len(completedTricks)) \X (1..TrickSize) :
                    completedTricks[nk[1]].trick.playerIds[nk[2]] = p})
    + (IF TrickInProgress
       THEN Cardinality({k \in 1..Len(TrickCards) : currentTrick[1].playerIds[k] = p})
       ELSE 0)

\* the match has reached its end and has not been started again
MatchEnded == TargetReached /\ ~gameStarted

\* every play that the engine accepts in this state takes exactly one card
\* out of the hand of the acting player
EveryPlayShrinksHandByOne ==
    \A cardIndex \in IndexArgs :
        \A r \in {playCard(Engine, currentPlayerIndex, cardIndex)} :
            r.error = "ok" =>
                Len(r.g.players[currentPlayerIndex].hand)
                    = Len(players[currentPlayerIndex].hand) - 1

C18_Original_NoPlayBeforeTrump ==
    trumpSuit = Null =>
        \A playerId \in SeatArgs, cardIndex \in IndexArgs :
            playCard(Engine, playerId, cardIndex).error # "ok"

(***************************************************************************)
(* C19 as stated: once the match has started exactly one trick object      *)
(* exists and it holds between 0 and 4 plays; a 5th play is never appended *)
(* to a trick, because a play made when the trick holds 4 plays goes into  *)
(* a fresh trick.                                                          *)
(***************************************************************************)
\* no accepted play leaves a trick of more than 4 plays, and a play on a
\* complete trick leaves a trick of that one play
NoFifthPlay ==
    \A cardIndex \in IndexArgs :
        \A r \in {playCard(Engine, currentPlayerIndex, cardIndex)} :
            r.error = "ok" =>
                /\ r.g.currentTrick # <<>>
                /\ Len(r.g.currentTrick[1].cards) <= TrickSize
                /\ TrickComplete =>
                      r.g.currentTrick[1].cards
                          = <<players[currentPlayerIndex].hand[cardIndex + 1]>>

C19_Original_OneTrickOnceStarted ==
    /\ gameStarted => (HasTrick /\ Len(TrickCards) \in 0..TrickSize)
    /\ NoFifthPlay

(***************************************************************************)
(* C19 amended: there is no trick object until the first card is played    *)
(* (also right after start); from the first play on exactly one trick      *)
(* object exists and it holds between 1 and 4 plays; a 5th play is never   *)
(* appended to a trick, because a play made when the trick holds 4 plays   *)
(* goes into a fresh trick.                                                *)
(***************************************************************************)
C19_OneTrickFromFirstPlay ==
    /\ HasTrick <=> Len(deck) + Len(AllHands) < Len(orderedDeck)
    /\ HasTrick =>
          /\ Len(TrickCards) \in 1..TrickSize
          /\ Len(currentTrick[1].playerIds) = Len(TrickCards)
    /\ NoFifthPlay

\* a complete trick on which the next card can be played
C19_Witness ==
    /\ gameStarted
    /\ TrickComplete
    /\ Len(completedTricks) >= 2
    /\ playCard(Engine, currentPlayerIndex, 0).error = "ok"

(***************************************************************************)
(* C20: a freshly constructed engine has trump unset, no current trick,    *)
(* the turn pointer at seat 0, every tricks-won counter at 0 and           *)
(* started = false.                                                        *)
(***************************************************************************)
C20_FreshEngine ==
    ~EverStarted =>
        /\ trumpSuit = Null
        /\ currentTrick = <<>>
        /\ currentPlayerIndex = 0
        /\ \A p \in PlayerIds : players[p].tricks = 0
        /\ gameStarted = FALSE

C20_Witness ==
    /\ ~EverStarted
    /\ Len(deck) = Len(orderedDeck)
    /\ AllHandsEmpty

(***************************************************************************)
(* Vocabulary of the claims about the Decision Module (GameAI).            *)
(***************************************************************************)
\* the hand of the seat at the turn pointer
TurnHand == IF currentPlayerIndex \in PlayerIds
            THEN players[currentPlayerIndex].hand ELSE <<>>
\* the index GameAI.makeMove returns for the seat at the turn pointer
AIChoice == makeMove(Engine, currentPlayerIndex)
\* 1-based positions of the hand in a suit, and outside a suit
InSuit(hand, suit) == {k \in 1..Len(hand) : hand[k].suit = suit}
NotInSuit(hand, suit) == {k \in 1..Len(hand) : hand[k].suit # suit}
\* position k holds a card of the highest (lowest) rank among the positions ks
HighestAmong(hand, ks, k) ==
    k \in ks /\ \A m \in ks : getCardValue(hand[m]) <= getCardValue(hand[k])
LowestAmong(hand, ks, k) ==
    k \in ks /\ \A m \in ks : getCardValue(hand[m]) >= getCardValue(hand[k])
\* the leading rule: the highest card that is not trump, or the highest card
\* of a hand that is all trump (no card is trump while trump is unset)
IsLeadingChoice(hand, trump, index) ==
    IF NotInSuit(hand, trump) # {}
    THEN HighestAmong(hand, NotInSuit(hand, trump), index + 1)
    ELSE HighestAmong(hand, 1..Len(hand), index + 1)

(***************************************************************************)
(* C21: whenever makeMove is invoked for the seat at the turn pointer in a *)
(* started match with a non-empty hand, playCard accepts the index it      *)
(* returns for that seat in that same state, in every reachable state,     *)
(* the states right after a trick has completed included.                  *)
(***************************************************************************)
C21_AIChoiceIsAccepted ==
    (gameStarted /\ Len(TurnHand) > 0) =>
        /\ AIChoice \in 0..(Len(TurnHand) - 1)
        /\ playCard(Engine, currentPlayerIndex, AIChoice).error = "ok"

\* the seat to act must follow a suit and holds other suits too; and a seat
\* that leads after a complete trick
C21_Witness ==
    /\ gameStarted
    /\ Len(completedTricks) >= 1
    /\ TrickInProgress
    /\ hasSuit(TurnHand, currentTrick[1].leadSuit)
    /\ NotInSuit(TurnHand, currentTrick[1].leadSuit) # {}

(***************************************************************************)
(* C24 as stated: makeMove uses the leading regime both when there is no   *)
(* trick or the trick is empty and when the current trick already holds 4  *)
(* plays: in both situations it returns the highest-ranked non-trump card  *)
(* of the hand, independent of the previous trick's lead suit.             *)
(***************************************************************************)
C24_Original_LeadsAfterCompleteTrick ==
    (gameStarted /\ Len(TurnHand) > 0 /\ ~TrickInProgress) =>
        IsLeadingChoice(TurnHand, trumpSuit, AIChoice)

(***************************************************************************)
(* C27: a call of makeMove leaves the whole engine state unchanged; the    *)
(* engine changes only by the calls the driver makes on it, and the step   *)
(* of an automated player changes it exactly as the playCard call with the *)
(* returned index does.                                                    *)
(***************************************************************************)
C27_OnlyEngineCallsChangeTheEngine ==
    [][\/ Engine' = startGame(Engine).g
       \/ \E suit \in Suit : Engine' = setTrumpSuit(Engine, suit).g
       \/ \E cardIndex \in IndexArgs :
             Engine' = playCard(Engine, currentPlayerIndex, cardIndex).g]_vars

\* the automated player has just played into a trick in progress
C27_Witness ==
    /\ CardsPlayed > MaxClickedPlays
    /\ TrickInProgress
    /\ Len(TrickCards) >= 2

(***************************************************************************)
(* The heuristic player on its own: makeMove on an engine that holds any   *)
(* small hand for the seat to act, any small trick in progress (or none)   *)
(* and any trump, followed by the play of the card it picks.               *)
(***************************************************************************)
\* the cards the hands and tricks are drawn from: three suits (one to lead,
\* one for trump, one more) in three ranks
AISuits == {suits[1], suits[3], suits[4]}
AIRanks == {"2", "9", "K"}
AICards == {c \in Card : c.suit \in AISuits /\ c.rank \in AIRanks}
\* the sequences of n different cards of a set
CardSeqs(cards, n) ==
    {s \in [1..n -> cards] : \A i \in 1..n, j \in 1..n : i # j => s[i] # s[j]}
\* a trick in progress holds fewer than TrickSize cards
TrickLens == {n \in 0..MaxTrickLen : n < TrickSize}

\* the engine as makeMove finds it: the trick was led by seat 0 and the turn
\* has come to the seat that holds the hand
AIInit ==
    \E n \in 1..MaxHandLen, m \in TrickLens, trump \in AISuits \cup {Null} :
        \E hand \in CardSeqs(AICards, n) :
            \E played \in CardSeqs(AICards \ {hand[k] : k \in 1..n}, m) :
                /\ deck = <<>>
                /\ players = [id \in PlayerIds |->
                                [hand |-> IF id = m THEN SubSeq(hand, 1, n) ELSE <<>>,
                                 tricks |-> 0]]
                /\ currentTrick =
                      IF m = 0
                      THEN <<>>
                      ELSE <<[cards |-> SubSeq(played, 1, m), winner |-> -1,
                              leadSuit |-> played[1].suit,
                              playerIds |-> SubSeq(<<0, 1, 2, 3>>, 1, m)]>>
                /\ trumpSuit = trump
                /\ currentPlayerIndex = m
                /\ gameStarted = TRUE
                /\ completedTricks = <<>>

AINext == AIMove

AISpec == AIInit /\ [][AINext]_vars

\* the seat to act follows in a trick in progress
Following == gameStarted /\ TrickInProgress /\ Len(TurnHand) > 0
\* the card that is winning the trick so far by the rules of the game: the
\* highest trump card played, else the highest card of the suit led
CurrentBest == TrickCards[RuleWinner(TrickCards, trumpSuit) + 1]
\* the positions of the hand in the lead suit, and those among them that win
\* against the best card of the trick (none does when that card is a trump
\* card of another suit)
LeadSuitCards == InSuit(TurnHand, currentTrick[1].leadSuit)
WinningCards ==
    {k \in LeadSuitCards :
        /\ CurrentBest.suit = TurnHand[k].suit
        /\ getCardValue(TurnHand[k]) > getCardValue(CurrentBest)}

(***************************************************************************)
(* C22 as stated: when the player must follow suit and at least one held   *)
(* lead-suit card beats the current best card of the trick, makeMove plays *)
(* the lowest-ranked of those winning cards.                               *)
(***************************************************************************)
C22_Original_CheapestWinner ==
    (Following /\ WinningCards # {}) =>
        LowestAmong(TurnHand, WinningCards, AIChoice + 1)

(***************************************************************************)
(* C22 amended: when the player must follow suit and at least one held     *)
(* lead-suit card beats the current best card of the trick, makeMove plays *)
(* the highest-ranked of those winning cards.                              *)
(***************************************************************************)
C22_HighestWinner ==
    (Following /\ WinningCards # {}) =>
        HighestAmong(TurnHand, WinningCards, AIChoice + 1)

\* two winning cards, the lower one first in the hand
C22_Witness ==
    /\ Following
    /\ Cardinality(WinningCards) >= 2
    /\ 1 \in WinningCards
    /\ ~HighestAmong(TurnHand, WinningCards, 1)

(***************************************************************************)
(* C23 as stated: when the player must follow suit and no held lead-suit   *)
(* card can win against the current best card under the trump-aware        *)
(* comparison (the current best may be a trump card of a suit other than   *)
(* the lead suit), makeMove plays the lowest-ranked card of the lead suit. *)
(***************************************************************************)
C23_Original_LowestWhenCannotWin ==
    (Following /\ LeadSuitCards # {} /\ WinningCards = {}) =>
        LowestAmong(TurnHand, LeadSuitCards, AIChoice + 1)

(***************************************************************************)
(* C25: in the leading regime (no trick yet) makeMove returns the index of *)
(* the highest-ranked card among the non-trump cards of the hand, or, if   *)
(* every card of the hand is trump, of the highest-ranked trump card; with *)
(* trump unset every card counts as non-trump.                             *)
(***************************************************************************)
C25_LeadsHighestNonTrump ==
    (gameStarted /\ ~HasTrick /\ Len(TurnHand) > 0) =>
        IsLeadingChoice(TurnHand, trumpSuit, AIChoice)

\* a hand whose first card is its highest and is trump, with a card that is not
C25_Witness ==
    /\ gameStarted /\ ~HasTrick
    /\ Len(TurnHand) >= 2
    /\ TurnHand[1].suit = trumpSuit
    /\ HighestAmong(TurnHand, 1..Len(TurnHand), 1)
    /\ NotInSuit(TurnHand, trumpSuit) # {}

(***************************************************************************)
(* C26: when following and holding no card of the lead suit, makeMove      *)
(* returns the index of the lowest-ranked non-trump card of the hand, or,  *)
(* if the hand is entirely trump, of the lowest-ranked trump card.         *)
(***************************************************************************)
C26_DiscardsLowestNonTrump ==
    (Following /\ LeadSuitCards = {}) =>
        IF NotInSuit(TurnHand, trumpSuit) # {}
        THEN LowestAmong(TurnHand, NotInSuit(TurnHand, trumpSuit), AIChoice + 1)
        ELSE LowestAmong(TurnHand, 1..Len(TurnHand), AIChoice + 1)

\* a hand without the lead suit whose first card is its lowest and is trump,
\* with a card that is not
C26_Witness ==
    /\ Following /\ LeadSuitCards = {}
    /\ Len(TurnHand) >= 2
    /\ TurnHand[1].suit = trumpSuit
    /\ LowestAmong(TurnHand, 1..Len(TurnHand), 1)
    /\ NotInSuit(TurnHand, trumpSuit) # {}

(***************************************************************************)
(* C28: after a successful play that does not complete the trick the turn  *)
(* pointer is (acting seat + 1) mod 4, so within one trick the seats play  *)
(* in cyclic seat order starting from the leader, each seat once.          *)
(***************************************************************************)
C28_TurnAdvancesCyclically ==
    /\ \A cardIndex \in IndexArgs :
          \A r \in {playCard(Engine, currentPlayerIndex, cardIndex)} :
              (r.error = "ok" /\ Len(r.g.currentTrick[1].cards) < TrickSize) =>
                  r.g.currentPlayerIndex = (currentPlayerIndex + 1) % NumPlayers
    /\ HasTrick =>
          \A k \in 1..Len(TrickCards) :
              currentTrick[1].playerIds[k]
                  = (currentTrick[1].playerIds[1] + k - 1) % NumPlayers
    /\ TrickInProgress =>
          currentPlayerIndex
              = (currentTrick[1].playerIds[Len(TrickCards)] + 1) % NumPlayers

\* a trick led by another seat than seat 0 in which the turn has passed from
\* seat 3 to seat 0
C28_Witness ==
    /\ TrickInProgress
    /\ Len(TrickCards) = TrickSize - 1
    /\ currentTrick[1].playerIds[1] = 2
    /\ currentPlayerIndex = 1

(***************************************************************************)
(* C29 as stated: the trick's winner field is unset (-1) while the trick   *)
(* holds fewer than 4 plays, and from the 4th play on it equals the seat   *)
(* index of the player who played the winning card.                        *)
(***************************************************************************)
C29_Original_WinnerFieldIsWinnerSeat ==
    HasTrick =>
        IF Len(TrickCards) < TrickSize
        THEN currentTrick[1].winner = -1
        ELSE currentTrick[1].winner =
                currentTrick[1].playerIds[
                    RuleWinner(TrickCards,
                               completedTricks[Len(completedTricks)].trumpSuit) + 1]

(***************************************************************************)
(* C30: a successful playCard(seat, i) removes exactly the card at index i *)
(* from the hand of that seat, keeping the order of the other cards,       *)
(* appends that card with that seat to the plays of the trick, and leaves  *)
(* the other three hands, the deck and the trump unchanged.                *)
(***************************************************************************)
C30_PlayMovesOneCardToTheTrick ==
    \A cardIndex \in IndexArgs :
        \A r \in {playCard(Engine, currentPlayerIndex, cardIndex)} :
            r.error = "ok" =>
                \A before \in {TurnHand}, after \in {r.g.players[currentPlayerIndex].hand} :
                    /\ Len(after) = Len(before) - 1
                    /\ \A k \in 1..Len(after) :
                          after[k] = IF k <= cardIndex THEN before[k] ELSE before[k + 1]
                    /\ r.g.currentTrick[1].cards
                          = (IF TrickInProgress THEN TrickCards ELSE <<>>)
                               \o <<before[cardIndex + 1]>>
                    /\ r.g.currentTrick[1].playerIds
                          = (IF TrickInProgress THEN currentTrick[1].playerIds ELSE <<>>)
                               \o <<currentPlayerIndex>>
                    /\ \A p \in PlayerIds \ {currentPlayerIndex} :
                          r.g.players[p].hand = players[p].hand
                    /\ r.g.deck = deck
                    /\ r.g.trumpSuit = trumpSuit

\* a card from the middle of the hand can be played into a trick in progress
C30_Witness ==
    /\ gameStarted /\ TrickInProgress
    /\ trumpSuit # Null
    /\ Len(TurnHand) >= 3
    /\ playCard(Engine, currentPlayerIndex, 1).error = "ok"

\* the index determineTrickWinner's scan holds as winning once it has looked at
\* the first n cards of the trick: the state of its loop after `i = n - 1`
RECURSIVE winningAfter(_, _, _)
winningAfter(cards, trump, n) ==
    IF n <= 1
    THEN 0
    ELSE LET winningIndex == winningAfter(cards, trump, n - 1)
             winningCard == cards[winningIndex + 1]
             card == cards[n]
         IN  IF card.suit = trump /\ winningCard.suit # trump
             THEN n - 1
             ELSE IF card.suit = winningCard.suit
                     /\ getCardValue(card) > getCardValue(winningCard)
                  THEN n - 1
                  ELSE winningIndex

(***************************************************************************)
(* C31: for every trump setting (unset too) and every non-empty prefix of  *)
(* the plays of the trick, getHighestCardInTrick returns the card that the *)
(* engine's left-to-right scan of determineTrickWinner holds as winning    *)
(* after that prefix.                                                      *)
(***************************************************************************)
C31_HighestInTrickIsEngineScan ==
    HasTrick =>
        \A n \in 1..Len(TrickCards) :
            getHighestCardInTrick([currentTrick[1] EXCEPT !.cards = SubSeq(TrickCards, 1, n)],
                                  trumpSuit)
                = <<TrickCards[winningAfter(TrickCards, trumpSuit, n) + 1]>>

\* a trump card of low rank has taken over from a higher card of the suit led,
\* and a later card of the suit led is higher than both
C31_Witness ==
    /\ HasTrick
    /\ Len(TrickCards) >= 3
    /\ trumpSuit # Null
    /\ TrickCards[1].suit # trumpSuit
    /\ TrickCards[2].suit = trumpSuit
    /\ TrickCards[3].suit = TrickCards[1].suit
    /\ getCardValue(TrickCards[3]) > getCardValue(TrickCards[1])
    /\ getCardValue(TrickCards[1]) > getCardValue(TrickCards[2])
    /\ winningAfter(TrickCards, trumpSuit, 3) = 1

\* the positions among which makeMove looks for its card when it leads and
\* when it discards: the cards that are not trump, or all if all are trump
Candidates ==
    IF NotInSuit(TurnHand, trumpSuit) # {}
    THEN NotInSuit(TurnHand, trumpSuit)
    ELSE 1..Len(TurnHand)
\* the engine reduced to what makeMove reads for the seat at the turn pointer
OnlyMakeMoveInputs ==
    [Engine EXCEPT !.deck = <<>>,
                   !.players = [p \in PlayerIds |->
                                   [hand |-> IF p = currentPlayerIndex THEN TurnHand ELSE <<>>,
                                    tricks |-> 0]],
                   !.gameStarted = FALSE]

(***************************************************************************)
(* C32: makeMove is deterministic: its result is fixed by the hand         *)
(* sequence, the current trick and trump, and when several candidate cards *)
(* tie on rank the one occurring first in the hand sequence is chosen.     *)
(***************************************************************************)
C32_DeterministicFirstOccurrence ==
    Len(TurnHand) > 0 =>
        /\ AIChoice = makeMove(OnlyMakeMoveInputs, currentPlayerIndex)
        /\ (~HasTrick \/ (TrickInProgress /\ LeadSuitCards = {})) =>
              /\ AIChoice + 1 \in Candidates
              /\ \A k \in Candidates :
                    getCardValue(TurnHand[k]) = getCardValue(TurnHand[AIChoice + 1])
                        => k >= AIChoice + 1

\* a discard among two cards of the same rank, neither of them trump
C32_Witness ==
    /\ TrickInProgress /\ LeadSuitCards = {}
    /\ Len(TurnHand) >= 2
    /\ {1, 2} \subseteq Candidates
    /\ getCardValue(TurnHand[1]) = getCardValue(TurnHand[2])
    /\ AIChoice = 0

\* seat p has played into the trick that is in progress
HasPlayedIntoTrick(p) ==
    TrickInProgress /\ \E k \in 1..Len(TrickCards) : currentTrick[1].playerIds[k] = p

(***************************************************************************)
(* C33: after start, in every reachable state the hand of each seat has    *)
(* 13 cards minus the number of completed tricks, minus 1 if that seat has *)
(* already played into the current incomplete trick; so all four hands are *)
(* of equal length whenever the current trick is absent or complete.       *)
(***************************************************************************)
C33_HandSizes ==
    EverStarted =>
        /\ \A p \in PlayerIds :
              Len(players[p].hand)
                  = DealRounds - Len(completedTricks)
                    - (IF HasPlayedIntoTrick(p) THEN 1 ELSE 0)
        /\ ~TrickInProgress =>
              \A p \in PlayerIds : Len(players[p].hand) = Len(players[0].hand)

\* in a later trick two seats have played and two have not
C33_Witness ==
    /\ EverStarted
    /\ Len(completedTricks) >= 2
    /\ Len(TrickCards) = 2
    /\ HasPlayedIntoTrick(currentTrick[1].playerIds[1])
    /\ ~HasPlayedIntoTrick(currentPlayerIndex)

(***************************************************************************)
(* C34 as stated: no stuck state: in every reachable state where the match *)
(* is started, the seat at the turn pointer has a non-empty hand and at    *)
(* least one hand index for which playCard succeeds.                       *)
(***************************************************************************)
C34_Original_NoStuckState ==
    gameStarted =>
        /\ Len(TurnHand) > 0
        /\ \E cardIndex \in 0..(Len(TurnHand) - 1) :
              playCard(Engine, currentPlayerIndex, cardIndex).error = "ok"

(***************************************************************************)
(* C35 as stated: if the seat at the turn pointer keeps making accepted    *)
(* plays the match ends, no earlier than the completion of the 7th trick   *)
(* and no later than the completion of the 13th trick, and no team's       *)
(* summed tricks-won ever exceeds 7.  (The safety part: a match that is    *)
(* started has fewer than 13 completed tricks, a match that has ended has  *)
(* at least 7, and no team has more than 7.)                               *)
(***************************************************************************)
C35_Original_EndsBetweenTricks7And13 ==
    /\ (EverStarted /\ gameStarted) => Len(completedTricks) < DealRounds
    /\ (EverStarted /\ ~gameStarted) => Len(completedTricks) >= TricksToWin
    /\ Team1Tricks <= TricksToWin
    /\ Team2Tricks <= TricksToWin

(***************************************************************************)
(* C36 as stated: match end is absorbing: once a team has reached 7 tricks *)
(* no sequence of public operations (a further start call in particular)   *)
(* puts the engine back into the started state, lets another card be       *)
(* played or lets another trick be counted.                                *)
(***************************************************************************)
C36_Original_MatchEndIsAbsorbing ==
    [][TargetReached =>
          /\ ~gameStarted'
          /\ AllHands' = AllHands
          /\ Team1Tricks' = Team1Tricks
          /\ Team2Tricks' = Team2Tricks]_vars

(***************************************************************************)
(* C37: when several failure conditions of playCard hold at once the       *)
(* reported error is the first in the order NotStarted, OutOfTurn,         *)
(* InvalidCardIndex, MustFollowLeadSuit: on an engine that is not started  *)
(* every call reports NotStarted; on a started one every call of a wrong   *)
(* seat reports OutOfTurn; the seat at the turn pointer gets               *)
(* InvalidCardIndex for every index outside its hand, and only a call      *)
(* that passes these three tests can report MustFollowLeadSuit.            *)
(***************************************************************************)
C37_ErrorPrecedence ==
    \A playerId \in SeatArgs, cardIndex \in IndexArgs :
        \A error \in {playCard(Engine, playerId, cardIndex).error} :
            IF ~gameStarted
            THEN error = NotStarted
            ELSE IF playerId # currentPlayerIndex
            THEN error = OutOfTurn
            ELSE IF cardIndex < 0 \/ cardIndex >= Len(TurnHand)
            THEN error = InvalidCardIndex
            ELSE error \in {"ok", MustFollowLeadSuit}

\* a started match in which a call of a wrong seat with an index out of range
\* is made while the seat at the turn pointer holds a card it may not play
C37_Witness ==
    /\ gameStarted
    /\ TrickInProgress
    /\ \E cardIndex \in 0..(Len(TurnHand) - 1) :
          playCard(Engine, currentPlayerIndex, cardIndex).error = MustFollowLeadSuit
    /\ playCard(Engine, (currentPlayerIndex + 1) % NumPlayers, -1).error = OutOfTurn
    /\ playCard(Engine, currentPlayerIndex, -1).error = InvalidCardIndex

\* the state of the older engine that exposes the same as the newer engine g
olderView(g) ==
    [g EXCEPT !.currentTrick =
        IF @ = <<>>
        THEN <<>>
        ELSE <<[cards |-> @[1].cards, winner |-> @[1].winner, leadSuit |-> @[1].leadSuit]>>]
\* what an engine exposes: hands, trick plays, turn pointer and tricks-won
Observable(g) ==
    [hands |-> [p \in PlayerIds |-> g.players[p].hand],
     plays |-> IF g.currentTrick = <<>> THEN <<>> ELSE g.currentTrick[1].cards,
     turn |-> g.currentPlayerIndex,
     tricks |-> [p \in PlayerIds |-> g.players[p].tricks]]
\* a call on the newer and on the older engine with the same outcome
SameOutcome(newer, older) ==
    newer.error = older.error /\ Observable(newer.g) = Observable(older.g)

(***************************************************************************)
(* C38 as stated: the two GameEngine implementations of the source are     *)
(* observationally equivalent: for every sequence of start, setTrump and   *)
(* playCard calls on the same deal they raise the same errors and expose   *)
(* the same hands, trick plays, turn pointer and tricks-won.  (Up to the   *)
(* completion of the first trick, where the two have gone through the      *)
(* same states, every next call has the same outcome in both.)             *)
(***************************************************************************)
C38_Original_VariantsEquivalent ==
    Len(completedTricks) = 0 =>
        /\ SameOutcome(startGame(Engine), startGame(olderView(Engine)))
        /\ \A suit \in Suit :
              SameOutcome(setTrumpSuit(Engine, suit), setTrumpSuit(olderView(Engine), suit))
        /\ \A playerId \in SeatArgs, cardIndex \in IndexArgs :
              SameOutcome(playCard(Engine, playerId, cardIndex),
                          playCardOlder(olderView(Engine), playerId, cardIndex))

(***************************************************************************)
(* C38 amended: the two implementations are not equivalent.  From the same *)
(* state start, setTrump and playCard have the same outcome in both,       *)
(* except that (1) after the play that completes a trick the turn pointer  *)
(* of the older one is one seat past that of the newer one (the winning    *)
(* play), and (2) on a complete trick the older one refuses with           *)
(* MustFollowLeadSuit the card that does not follow the finished trick's   *)
(* lead suit when the hand holds that suit, where the newer one accepts    *)
(* every card.                                                             *)
(***************************************************************************)
C38_VariantsDifferAtTrickEnd ==
    \A o \in {olderView(Engine)} :
        /\ SameOutcome(startGame(Engine), startGame(o))
        /\ \A suit \in Suit : SameOutcome(setTrumpSuit(Engine, suit), setTrumpSuit(o, suit))
        /\ \A playerId \in SeatArgs, cardIndex \in IndexArgs :
              \A newer \in {playCard(Engine, playerId, cardIndex)},
                 older \in {playCardOlder(o, playerId, cardIndex)} :
                  IF newer.error = "ok" /\ TrickComplete
                     /\ hasSuit(TurnHand, currentTrick[1].leadSuit)
                     /\ TurnHand[cardIndex + 1].suit # currentTrick[1].leadSuit
                  THEN older.error = MustFollowLeadSuit /\ older.g = o
                  ELSE IF newer.error = "ok" /\ Len(newer.g.currentTrick[1].cards) = TrickSize
                  THEN /\ older.error = "ok"
                       /\ Observable(older.g)
                            = [Observable(newer.g) EXCEPT !.turn = (@ + 1) % NumPlayers]
                  ELSE SameOutcome(newer, older)

\* a complete trick after which the newer engine accepts a card that the older
\* one refuses
C38_Witness ==
    /\ gameStarted /\ TrickComplete
    /\ \E cardIndex \in 0..(Len(TurnHand) - 1) :
          /\ playCard(Engine, currentPlayerIndex, cardIndex).error = "ok"
          /\ playCardOlder(olderView(Engine), currentPlayerIndex, cardIndex).error
                = MustFollowLeadSuit

====
